---- MODULE Spec2Model ----
(***************************************************************************)
(* Model of sar4cet/change_detection/methods.py: detect_changes and the    *)
(* three strategies omnibus_test, ratio_test and difference_test, of the   *)
(* unit conversions of sar4cet/utils/conversions.py, of download_sentinel1 *)
(* (preprocessing/download.py) and of detect_tank_changes                  *)
(* (oil_monitoring/tank_volume.py).                                        *)
(*                                                                         *)
(* Numbers.  Intensities are naturals in units of 0.5 (2 is 1.0, 5 is      *)
(* 2.5).  The guard 1e-10 of the code is kept as a positive infinitesimal  *)
(* eps: a number is a pair <<c0, c1>> standing for c0 + c1*eps, ordered    *)
(* lexicographically (1e-10 is far below the grid spacing and far above    *)
(* the float64 rounding error of the values used).  A logarithm is kept    *)
(* by its exact argument: a magnitude of kind "fin" with argument n/d      *)
(* stands for c*ln(n/d), c > 0 a constant of the strategy (2*n_looks for   *)
(* omnibus, 1 for ratio, 10/ln(10) for difference), so magnitudes of one   *)
(* run are ordered as their arguments are, and are 0 exactly when the      *)
(* argument is 1.  Kinds "inf", "ninf" and "nan" are the IEEE specials.    *)
(* change_magnitude is float32: the rounding is monotone and keeps every   *)
(* value of this model non-zero, so it is not modelled further.            *)
(***************************************************************************)
EXTENDS Integers, Sequences, FiniteSets, TLC

\* ---------------------------------------------------------------- bounds
MaxT == 3
MaxCalls == 3
MaxX == 20
MaxProducts == 3
MaxTanks == 2

\* ---------------------------------------------------------------- inputs
\* Intensities, in units of 0.5: 0.0, 1.0 and 2.5.
Values == {0, 2, 5}
\* A grid is flattened to the sequence of its pixels; its shape is (1, Len).
Widths == {1, 2}
Grids == UNION {[1..w -> Values] : w \in Widths}
\* The stack of Scenarios A and B: 5 images, pixel 1 is 1.0, 1.0, 1.0, 2.5,
\* 2.5 and pixel 2 (every other pixel) is 1.0 throughout.
ScenarioStack == [t \in 1..5 |-> <<IF t >= 4 THEN 5 ELSE 2, 2>>]
Stacks == UNION {[1..T -> Grids] : T \in 0..MaxT} \cup {ScenarioStack}
Methods == {"omnibus", "ratio", "difference", "bogus"}
\* significance as a fraction <<p, q>>: 0.01 (default), 0.5, 1 and 1.5.
Significances == {<<1, 100>>, <<1, 2>>, <<1, 1>>, <<3, 2>>}

\* The arguments a caller draws from when it calls detect_changes repeatedly.
CallStacks == {<<<<5>>, <<2>>>>, <<<<5>>, <<0>>>>, <<<<2>>, <<5>>, <<5>>>>}
CallSignificances == {<<1, 100>>, <<1, 2>>}

\* Positive inputs of the unit conversions, as <<c0, c1>> for c0 + c1 * 1e-10:
\* the values 1..MaxX and the values 1e-10..MaxX * 1e-10.
ConvInputs == {<<n, 0>> : n \in 1..MaxX} \cup {<<0, c>> : c \in 1..MaxX}

\* ------------------------------------------------------------ arithmetic
RECURSIVE Pow(_, _)
Pow(x, n) == IF n = 0 THEN 1 ELSE x * Pow(x, n - 1)

RECURSIVE Gcd(_, _)
Gcd(a, b) == IF b = 0 THEN a ELSE Gcd(b, a % b)

\* x * q < y for naturals, without forming x * q.
MulLess(x, q, y) == y >= 1 /\ x <= (y - 1) \div q

PolyMul(a, b) == <<a[1] * b[1], a[1] * b[2] + a[2] * b[1], a[2] * b[2]>>

LexLess(x, y) ==
    \/ x[1] < y[1]
    \/ x[1] = y[1] /\ x[2] < y[2]
    \/ x[1] = y[1] /\ x[2] = y[2] /\ x[3] < y[3]

Frac(n, d) == [n |-> n, d |-> d]
FracLess(x, y) == LexLess(PolyMul(x.n, y.d), PolyMul(y.n, x.d))
FracEq(x, y) == PolyMul(x.n, y.d) = PolyMul(y.n, x.d)
FracInv(x) == Frac(x.d, x.n)
FracOne == Frac(<<1, 0>>, <<1, 0>>)

Fin(x) == [kind |-> "fin", arg |-> x]
PosInf == [kind |-> "inf", arg |-> FracOne]
NegInf == [kind |-> "ninf", arg |-> FracOne]
NaN == [kind |-> "nan", arg |-> FracOne]
Zero == Fin(FracOne)

\* x < y on magnitudes (IEEE: false when either is NaN).
MagLess(x, y) ==
    CASE x.kind = "nan" \/ y.kind = "nan" -> FALSE
      [] x.kind = "inf" -> FALSE
      [] y.kind = "ninf" -> FALSE
      [] x.kind = "ninf" -> TRUE
      [] y.kind = "inf" -> TRUE
      [] OTHER -> FracLess(x.arg, y.arg)

MagEq(x, y) ==
    /\ x.kind = y.kind
    /\ x.kind # "nan"
    /\ x.kind = "fin" => FracEq(x.arg, y.arg)

IsZero(x) == MagEq(x, Zero)
IsFinite(x) == x.kind = "fin"

\* np.maximum: NaN if either is NaN, else the larger.
np_maximum(x, y) ==
    IF x.kind = "nan" \/ y.kind = "nan" THEN NaN
    ELSE IF MagLess(x, y) THEN y ELSE x

uint8(x) == x % 256

\* ------------------------------------------------------------ strategies
n_looks == 5
db_threshold == 3
ratio_threshold == Frac(<<3, 0>>, <<2, 0>>)
\* The guard 1e-10 added to an intensity x (in units of 0.5): x + 2*eps.
PlusEps(x) == <<x, 2>>

\* Faulty variant of SumTo: the sum runs over every pixel (np.mean without axis=0).
RECURSIVE SumToAllPixels(_, _, _)
SumToAllPixels(stack, p, k) ==
    IF k = 0 THEN 0
    ELSE LET RECURSIVE row(_)
             row(n) == IF n = 0 THEN 0 ELSE row(n - 1) + stack[k][n]
         IN  SumToAllPixels(stack, p, k - 1) + row(Len(stack[k]))
RECURSIVE SumTo(_, _, _)
\* The sum over the first k images of pixel p.
SumTo(stack, p, k) == IF k = 0 THEN 0 ELSE SumTo(stack, p, k - 1) + stack[k][p]

\* critical_value = chi2.ppf(1 - significance, 2) for significance p/q.  For
\* 2 degrees of freedom the quantile is -2*ln(significance): kind "fin"
\* with argument q/p stands for 2*ln(q/p); ppf(1) is inf, ppf(0) is 0 and
\* ppf outside [0, 1] is NaN.
chi2_ppf(significance) ==
    LET p == significance[1]
        q == significance[2]
    IN  CASE p < 0 \/ p > q -> NaN
          [] p = 0 -> PosInf
          [] OTHER -> Fin(Frac(<<q, 0>>, <<p, 0>>))

\* Faulty variant of OmnibusStatistic: the ratio is inverted (mean_prev / mean_all).
OmnibusStatisticInverted(stack, i, p) ==
    LET N == SumTo(stack, p, i) * (i + 1)
        D == SumTo(stack, p, i + 1) * i
        g == Gcd(N, D)
    IN  CASE D = 0 /\ N = 0 -> NaN
          [] D = 0 -> NegInf
          [] N = 0 -> PosInf
          [] OTHER -> Fin(Frac(<<D \div g, 0>>, <<N \div g, 0>>))
\* test_statistic = -2 * n_looks * ln(mean_all / mean_prev) at step i, pixel
\* p: mean_all is the mean of images 0..i, mean_prev of images 0..i-1 (the
\* stack is 1-based here).  The value is 2*n_looks*ln(D/N) with
\* N/D = mean_all/mean_prev; x/0 is inf (statistic -inf) and 0/0 is NaN.
OmnibusStatistic(stack, i, p) ==
    LET N == SumTo(stack, p, i + 1) * i
        D == SumTo(stack, p, i) * (i + 1)
        g == Gcd(N, D)
    IN  CASE D = 0 /\ N = 0 -> NaN
          [] D = 0 -> NegInf
          [] N = 0 -> PosInf
          [] OTHER -> Fin(Frac(<<D \div g, 0>>, <<N \div g, 0>>))

\* Faulty variant of ExceedsCritical: the comparison is not strict (test_statistic >= critical_value).
ExceedsCriticalOrEqual(stat, crit) ==
    CASE stat.kind = "nan" \/ crit.kind = "nan" -> FALSE
      [] stat.kind = "ninf" -> FALSE
      [] stat.kind = "inf" \/ crit.kind = "inf" -> stat.kind = crit.kind
      [] OTHER ->
           MulLess(Pow(stat.arg.d[1], n_looks), crit.arg.n[1],
                   crit.arg.d[1] * Pow(stat.arg.n[1], n_looks) + 1)
\* Faulty variant of ExceedsCritical: the comparison is reversed (test_statistic < critical_value).
ExceedsCriticalReversed(stat, crit) ==
    CASE stat.kind = "nan" \/ crit.kind = "nan" -> FALSE
      [] stat.kind = "inf" -> FALSE
      [] stat.kind = "ninf" \/ crit.kind = "inf" -> TRUE
      [] OTHER ->
           ~MulLess(Pow(stat.arg.d[1], n_looks), crit.arg.n[1],
                    crit.arg.d[1] * Pow(stat.arg.n[1], n_looks) + 1)
\* test_statistic > critical_value: 2*n_looks*ln(D/N) > 2*ln(q/p), that is
\* p * D^n_looks > q * N^n_looks.
ExceedsCritical(stat, crit) ==
    CASE stat.kind = "nan" \/ crit.kind = "nan" -> FALSE
      [] stat.kind = "ninf" \/ crit.kind = "inf" -> FALSE
      [] stat.kind = "inf" -> TRUE
      [] OTHER ->
           MulLess(Pow(stat.arg.d[1], n_looks), crit.arg.n[1],
                   crit.arg.d[1] * Pow(stat.arg.n[1], n_looks))

\* Faulty variant of RatioValue: the ratio is taken against the first image of the stack.
RatioValueFromFirst(stack, i, p) ==
    Frac(<<stack[i + 1][p], 0>>, PlusEps(stack[1][p]))
\* ratio = image_stack[i] / (image_stack[i-1] + 1e-10)
RatioValue(stack, i, p) == Frac(<<stack[i + 1][p], 0>>, PlusEps(stack[i][p]))

\* Faulty variant of RatioChanges: only increases are flagged (ratio > threshold).
RatioChangesUpward(r) == FracLess(ratio_threshold, r)
\* changes = (ratio > threshold) | (ratio < 1/threshold)
RatioChanges(r) ==
    FracLess(ratio_threshold, r) \/ FracLess(r, FracInv(ratio_threshold))

\* np.abs(np.log(r)) for r >= 0: inf at 0, else ln of max(r, 1/r).
AbsLog(r) ==
    IF r.n = <<0, 0>> THEN PosInf
    ELSE IF FracLess(r, FracOne) THEN Fin(FracInv(r)) ELSE Fin(r)

\* Faulty variant of DbDiff: the difference is taken against the first image of the stack.
DbDiffFromFirst(stack, i, p) ==
    AbsLog(Frac(PlusEps(stack[i + 1][p]), PlusEps(stack[1][p])))
\* diff = |image_stack_db[i] - image_stack_db[i-1]| with
\* image_stack_db = 10 * log10(image_stack + 1e-10).
DbDiff(stack, i, p) ==
    AbsLog(Frac(PlusEps(stack[i + 1][p]), PlusEps(stack[i][p])))

\* diff > threshold: 10*log10(F) > db_threshold, that is F^10 > 10^db_threshold,
\* for F = n/d >= 1.  The leading terms decide (10^3 is no tenth power of a
\* fraction) unless the denominator is of order eps.
DbExceeds(diff) ==
    /\ diff.kind # "nan"
    /\ \/ diff.kind = "inf"
       \/ /\ diff.kind = "fin"
          /\ LET n == diff.arg.n
                 d == diff.arg.d
             IN  IF d[1] = 0
                 THEN n[1] > 0 \/ MulLess(Pow(d[2], 10), Pow(10, db_threshold),
                                          Pow(n[2], 10))
                 ELSE MulLess(Pow(d[1], 10), Pow(10, db_threshold), Pow(n[1], 10))

\* The step's magnitude value at pixel p (computed for every pixel).
StepMagnitude(m, stack, i, p) ==
    CASE m = "omnibus" -> OmnibusStatistic(stack, i, p)
      [] m = "ratio" -> AbsLog(RatioValue(stack, i, p))
      [] m = "difference" -> DbDiff(stack, i, p)

\* Faulty variant of StepChanges: the ratio test takes 1/significance as its threshold.
StepChangesBySignificance(m, stack, sig, i, p) ==
    CASE m = "omnibus" ->
           ExceedsCritical(OmnibusStatistic(stack, i, p), chi2_ppf(sig))
      [] m = "ratio" ->
           \/ FracLess(Frac(<<sig[2], 0>>, <<sig[1], 0>>), RatioValue(stack, i, p))
           \/ FracLess(RatioValue(stack, i, p), Frac(<<sig[1], 0>>, <<sig[2], 0>>))
      [] m = "difference" -> DbExceeds(DbDiff(stack, i, p))
\* Whether pixel p is flagged at step i.
StepChanges(m, stack, sig, i, p) ==
    CASE m = "omnibus" ->
           ExceedsCritical(OmnibusStatistic(stack, i, p), chi2_ppf(sig))
      [] m = "ratio" -> RatioChanges(RatioValue(stack, i, p))
      [] m = "difference" -> DbExceeds(DbDiff(stack, i, p))

\* mask = (first_change == 0) & changes; first_change[mask] = i   (uint8)
UpdateFirstChange(fc, ch, i) == IF fc = 0 /\ ch THEN uint8(i) ELSE fc

\* Faulty variant of UpdateFrequency: the count saturates at 255.
UpdateFrequencySaturating(cf, ch) ==
    IF ch /\ cf < 255 THEN cf + 1 ELSE cf
\* change_frequency[changes] += 1   (uint8)
UpdateFrequency(cf, ch) == IF ch THEN uint8(cf + 1) ELSE cf

\* Faulty variant of UpdateMagnitude: the step's magnitude is assigned, not maximised.
UpdateMagnitudeAssigned(cm, ch, mag) == IF ch THEN mag ELSE cm
\* change_magnitude[changes] = np.maximum(change_magnitude[changes], mag[changes])
UpdateMagnitude(cm, ch, mag) == IF ch THEN np_maximum(cm, mag) ELSE cm

\* ----------------------------------------------------------- conversions
\* sar4cet/utils/conversions.py.  A linear value is <<c0, c1>>, standing for
\* c0 + c1 * 1e-10 (1e-10 as the infinitesimal eps), and a decibel value is
\* [scale, arg], standing for scale * log10(arg).
RECURSIVE PolyPower(_, _)
\* a^k up to the terms of order eps.
PolyPower(a, k) ==
    IF k = 0 THEN <<1, 0>>
    ELSE LET m == PolyMul(a, PolyPower(a, k - 1)) IN <<m[1], m[2]>>

\* Faulty variant of linear_to_db: the amplitude formula 20 * log10.
linear_to_db_amplitude(linear_values) ==
    [scale |-> 20, arg |-> <<linear_values[1], linear_values[2] + 1>>]
\* 10.0 * np.log10(linear_values + 1e-10)
linear_to_db(linear_values) ==
    [scale |-> 10, arg |-> <<linear_values[1], linear_values[2] + 1>>]

\* 10 ** (db_values / 10.0): 10^(scale * log10(arg) / 10) = arg^(scale / 10)
db_to_linear(db_values) == PolyPower(db_values.arg, db_values.scale \div 10)

\* ----------------------------------------------------------------- state
VARIABLES
    images,            \* the caller's list: grids, or the grids behind the paths
    from_paths,        \* whether images[0] is a str (a list of file paths)
    method,
    significance,
    pc,                \* "call", "stacked", "loop", "returned" or "raised"
    loaded,            \* number of files read through rasterio
    metadata,          \* None is <<>>
    image_stack,       \* np.stack(images), <<>> before it exists
    strategy,          \* the strategy function entered, "none" before
    i,                 \* the strategy's loop index
    first_change,
    change_frequency,
    change_magnitude,
    error,             \* the exception raised, "none" if none
    result,            \* <<>> until detect_changes returns <<dict>>
    calls,             \* number of calls of detect_changes the caller has made
    history,           \* arguments and grids of the calls that returned, in order
    conv,              \* a round trip through the unit conversions: its position,
                       \* its input x, linear_to_db(x) and db_to_linear of that
    dl,                \* a call of download_sentinel1 (preprocessing/download.py)
    tk                 \* a call of detect_tank_changes (oil_monitoring/tank_volume.py)

vars == <<images, from_paths, method, significance, pc, loaded, metadata,
          image_stack, strategy, i, first_change, change_frequency,
          change_magnitude, error, result, calls, history, conv, dl, tk>>

None == <<>>
\* No conversion is under way.
ConvIdle == [pc |-> "idle", x |-> <<0, 0>>, db |-> None, lin |-> None]
\* No download is under way.
DlIdle == [pc |-> "idle"]
\* No tank comparison is under way.
TkIdle == [pc |-> "idle"]
\* Faulty variant of Meta: src.meta of the file read last.
MetaOfLast(k) == <<"meta", Len(images)>>
\* src.meta of the k-th file.
Meta(k) == <<"meta", k>>

Init ==
    /\ images \in Stacks
    /\ from_paths \in BOOLEAN
    /\ method \in Methods
    /\ significance \in Significances
    /\ pc = "call"
    /\ loaded = 0
    /\ metadata = None
    /\ image_stack = <<>>
    /\ strategy = "none"
    /\ i = 0
    /\ first_change = <<>>
    /\ change_frequency = <<>>
    /\ change_magnitude = <<>>
    /\ error = "none"
    /\ result = <<>>
    /\ calls = 1
    /\ history = <<>>
    /\ conv = ConvIdle
    /\ dl = DlIdle
    /\ tk = TkIdle

\* Faulty variant of SameShape: only the first and the last array are compared.
SameShapeEnds(imgs) == Len(imgs[1]) = Len(imgs[Len(imgs)])
\* np.stack accepts the list when all arrays have the same shape.
SameShape(imgs) == \A a, b \in 1..Len(imgs) : Len(imgs[a]) = Len(imgs[b])

\* detect_changes, lines 25-42: load the files if paths were given, then
\* np.stack.  images[0] of an empty list raises IndexError.
LoadAndStack ==
    /\ pc = "call"
    /\ IF images = <<>>
       THEN /\ pc' = "raised"
            /\ error' = "IndexError"
            /\ UNCHANGED <<loaded, metadata, image_stack>>
       ELSE /\ loaded' = IF from_paths THEN Len(images) ELSE 0
            /\ metadata' = IF from_paths THEN Meta(1) ELSE None
            /\ IF SameShape(images)
               THEN /\ image_stack' = images
                    /\ pc' = "stacked"
                    /\ error' = error
               ELSE /\ pc' = "raised"
                    /\ error' = "ValueError: all input arrays must have the same shape"
                    /\ image_stack' = image_stack
    /\ UNCHANGED <<images, from_paths, method, significance, strategy, i,
                   first_change, change_frequency, change_magnitude, result>>
    /\ UNCHANGED <<calls, history, conv,
                   dl, tk>>

KnownMethod(m) == m \in {"omnibus", "ratio", "difference"}

\* np.zeros((rows, cols)) of a strategy.
Zeros(stack, z) == [p \in DOMAIN stack[1] |-> z]

\* Faulty variant of Dispatch: method "difference" is dispatched to ratio_test.
DispatchToRatio ==
    /\ pc = "stacked"
    /\ IF KnownMethod(method)
       THEN /\ strategy' = IF method = "difference" THEN "ratio" ELSE method
            /\ first_change' = Zeros(image_stack, 0)
            /\ change_frequency' = Zeros(image_stack, 0)
            /\ change_magnitude' = Zeros(image_stack, Zero)
            /\ i' = 1
            /\ pc' = "loop"
            /\ error' = error
       ELSE /\ pc' = "raised"
            /\ error' = "ValueError: Unknown method"
            /\ UNCHANGED <<strategy, first_change, change_frequency,
                           change_magnitude, i>>
    /\ UNCHANGED <<images, from_paths, method, significance, loaded, metadata,
                   image_stack, result, calls, history, conv,
                   dl, tk>>
\* Faulty variant of Dispatch: the maps are module-level arrays, allocated once and
\* kept from one call to the next.
DispatchKeepingMaps ==
    /\ pc = "stacked"
    /\ IF KnownMethod(method)
       THEN /\ strategy' = method
            /\ IF DOMAIN first_change = DOMAIN image_stack[1]
               THEN UNCHANGED <<first_change, change_frequency, change_magnitude>>
               ELSE /\ first_change' = Zeros(image_stack, 0)
                    /\ change_frequency' = Zeros(image_stack, 0)
                    /\ change_magnitude' = Zeros(image_stack, Zero)
            /\ i' = 1
            /\ pc' = "loop"
            /\ error' = error
       ELSE /\ pc' = "raised"
            /\ error' = "ValueError: Unknown method"
            /\ UNCHANGED <<strategy, first_change, change_frequency,
                           change_magnitude, i>>
    /\ UNCHANGED <<images, from_paths, method, significance, loaded, metadata,
                   image_stack, result, calls, history, conv,
                   dl, tk>>
\* detect_changes, lines 44-52, and the entered strategy up to its loop.
Dispatch ==
    /\ pc = "stacked"
    /\ IF KnownMethod(method)
       THEN /\ strategy' = method
            /\ first_change' = Zeros(image_stack, 0)
            /\ change_frequency' = Zeros(image_stack, 0)
            /\ change_magnitude' = Zeros(image_stack, Zero)
            /\ i' = 1
            /\ pc' = "loop"
            /\ error' = error
       ELSE /\ pc' = "raised"
            /\ error' = "ValueError: Unknown method"
            /\ UNCHANGED <<strategy, first_change, change_frequency,
                           change_magnitude, i>>
    /\ UNCHANGED <<images, from_paths, method, significance, loaded, metadata,
                   image_stack, result>>
    /\ UNCHANGED <<calls, history, conv,
                   dl, tk>>

\* Faulty variant of Step: the iteration keeps a running sum in place in the stack.
StepRunningSum ==
    /\ pc = "loop"
    /\ i < Len(image_stack)
    /\ LET ch(p) == StepChanges(strategy, image_stack, significance, i, p)
           mag(p) == StepMagnitude(strategy, image_stack, i, p)
       IN  /\ first_change' =
                [p \in DOMAIN first_change |->
                    UpdateFirstChange(first_change[p], ch(p), i)]
           /\ change_frequency' =
                [p \in DOMAIN change_frequency |->
                    UpdateFrequency(change_frequency[p], ch(p))]
           /\ change_magnitude' =
                [p \in DOMAIN change_magnitude |->
                    UpdateMagnitude(change_magnitude[p], ch(p), mag(p))]
    /\ image_stack' =
         [image_stack EXCEPT
             ![i + 1] = [p \in DOMAIN image_stack[i] |->
                            image_stack[i][p] + image_stack[i + 1][p]]]
    /\ i' = i + 1
    /\ UNCHANGED <<images, from_paths, method, significance, pc, loaded,
                   metadata, strategy, error, result, calls, history, conv,
                   dl, tk>>
\* One iteration of "for i in range(1, k)" of the entered strategy.  The maps
\* are uint8: "+= 1" wraps, and storing a step index above 255 wraps (NumPy
\* 1.x) or raises OverflowError (NumPy 2.x); the repository pins no version.
Step ==
    /\ pc = "loop"
    /\ i < Len(image_stack)
    /\ LET ch(p) == StepChanges(strategy, image_stack, significance, i, p)
           mag(p) == StepMagnitude(strategy, image_stack, i, p)
           out_of_range == i > 255 /\ \E p \in DOMAIN first_change :
                                          first_change[p] = 0 /\ ch(p)
       IN  \/ /\ first_change' =
                   [p \in DOMAIN first_change |->
                       UpdateFirstChange(first_change[p], ch(p), i)]
              /\ change_frequency' =
                   [p \in DOMAIN change_frequency |->
                       UpdateFrequency(change_frequency[p], ch(p))]
              /\ change_magnitude' =
                   [p \in DOMAIN change_magnitude |->
                       UpdateMagnitude(change_magnitude[p], ch(p), mag(p))]
              /\ i' = i + 1
              /\ UNCHANGED <<pc, error>>
           \/ /\ out_of_range
              /\ pc' = "raised"
              /\ error' = "OverflowError"
              /\ UNCHANGED <<first_change, change_frequency, change_magnitude, i>>
    /\ UNCHANGED <<images, from_paths, method, significance, loaded,
                   metadata, image_stack, strategy, result>>
    /\ UNCHANGED <<calls, history, conv,
                   dl, tk>>

\* The dict detect_changes returns (lines 54-59).
ChangeMap(fc, cf, cm, md) ==
    [first_change |-> fc, change_frequency |-> cf, change_magnitude |-> cm,
     metadata |-> md]

\* The loop is over: the strategy returns its maps and detect_changes its dict.
Return ==
    /\ pc = "loop"
    /\ i >= Len(image_stack)
    /\ result' = <<ChangeMap(first_change, change_frequency, change_magnitude,
                             metadata)>>
    /\ pc' = "returned"
    /\ history' = Append(history, [images |-> images, method |-> method,
                                   significance |-> significance,
                                   first_change |-> first_change,
                                   change_frequency |-> change_frequency,
                                   change_magnitude |-> change_magnitude])
    /\ UNCHANGED <<images, from_paths, method, significance, loaded, metadata,
                   image_stack, strategy, i, first_change, change_frequency,
                   change_magnitude, error, calls, conv,
                   dl, tk>>

Next == LoadAndStack \/ Dispatch \/ Step \/ Return

Spec == Init /\ [][Next]_vars

\* Long single-pixel stacks of 257 images, for the width of the uint8 maps:
\* 1.0 throughout and 2.5 in the last image (first flagged at step 256), and
\* 1.0 and 2.5 in turn (flagged at each of the 256 steps).
LongJump == [t \in 1..257 |-> <<IF t = 257 THEN 5 ELSE 2>>]
LongAlternating == [t \in 1..257 |-> <<IF t % 2 = 1 THEN 2 ELSE 5>>]

InitLong ==
    /\ images \in {LongJump, LongAlternating}
    /\ from_paths = FALSE
    /\ method \in {"ratio", "difference"}
    /\ significance = <<1, 100>>
    /\ pc = "call"
    /\ loaded = 0
    /\ metadata = None
    /\ image_stack = <<>>
    /\ strategy = "none"
    /\ i = 0
    /\ first_change = <<>>
    /\ change_frequency = <<>>
    /\ change_magnitude = <<>>
    /\ error = "none"
    /\ result = <<>>
    /\ calls = 1
    /\ history = <<>>
    /\ conv = ConvIdle
    /\ dl = DlIdle
    /\ tk = TkIdle

SpecLong == InitLong /\ [][Next]_vars

\* A caller that calls detect_changes up to MaxCalls times, one call after
\* the other, with arguments of its choice.  The maps of a finished call are
\* left as they were: every call allocates its own on entry (np.zeros).
InitCalls ==
    /\ images \in CallStacks
    /\ from_paths = FALSE
    /\ method \in Methods
    /\ significance \in CallSignificances
    /\ pc = "call"
    /\ loaded = 0
    /\ metadata = None
    /\ image_stack = <<>>
    /\ strategy = "none"
    /\ i = 0
    /\ first_change = <<>>
    /\ change_frequency = <<>>
    /\ change_magnitude = <<>>
    /\ error = "none"
    /\ result = <<>>
    /\ calls = 1
    /\ history = <<>>
    /\ conv = ConvIdle
    /\ dl = DlIdle
    /\ tk = TkIdle

NewCall ==
    /\ pc \in {"returned", "raised"}
    /\ calls < MaxCalls
    /\ calls' = calls + 1
    /\ images' \in CallStacks
    /\ method' \in Methods
    /\ significance' \in CallSignificances
    /\ pc' = "call"
    /\ loaded' = 0
    /\ metadata' = None
    /\ image_stack' = <<>>
    /\ strategy' = "none"
    /\ i' = 0
    /\ error' = "none"
    /\ result' = <<>>
    /\ UNCHANGED <<from_paths, first_change, change_frequency,
                   change_magnitude, history, conv,
                   dl, tk>>

NextCalls == Next \/ NewCall

SpecCalls == InitCalls /\ [][NextCalls]_vars

\* A round trip through the unit conversions, with no call of detect_changes.
InitConv ==
    /\ conv \in {[pc |-> "linear", x |-> x, db |-> None, lin |-> None] :
                     x \in ConvInputs}
    /\ images = <<>>
    /\ from_paths = FALSE
    /\ method = "none"
    /\ significance = <<1, 100>>
    /\ pc = "idle"
    /\ loaded = 0
    /\ metadata = None
    /\ image_stack = <<>>
    /\ strategy = "none"
    /\ i = 0
    /\ first_change = <<>>
    /\ change_frequency = <<>>
    /\ change_magnitude = <<>>
    /\ error = "none"
    /\ result = <<>>
    /\ calls = 0
    /\ history = <<>>
    /\ dl = DlIdle
    /\ tk = TkIdle

LinearToDb ==
    /\ conv.pc = "linear"
    /\ conv' = [conv EXCEPT !.pc = "db", !.db = linear_to_db(conv.x)]
    /\ UNCHANGED <<images, from_paths, method, significance, pc, loaded,
                   metadata, image_stack, strategy, i, first_change,
                   change_frequency, change_magnitude, error, result, calls,
                   history, dl, tk>>

DbToLinear ==
    /\ conv.pc = "db"
    /\ conv' = [conv EXCEPT !.pc = "done", !.lin = db_to_linear(conv.db)]
    /\ UNCHANGED <<images, from_paths, method, significance, pc, loaded,
                   metadata, image_stack, strategy, i, first_change,
                   change_frequency, change_magnitude, error, result, calls,
                   history, dl, tk>>

NextConv == LinearToDb \/ DbToLinear

SpecConv == InitConv /\ [][NextConv]_vars

\* ------------------------------------------------------------- download
\* sar4cet/preprocessing/download.py, download_sentinel1 from line 389 on:
\* the products were found and limited; they are numbered 1..n in the order
\* of the dict, and a file path is kept as the number of its product.
\* The variables of detect_changes, in no call.
detectVars == <<images, from_paths, method, significance, pc, loaded, metadata,
                image_stack, strategy, i, first_change, change_frequency,
                change_magnitude, error, result, calls, history>>
DetectIdle ==
    /\ images = <<>>
    /\ from_paths = FALSE
    /\ method = "none"
    /\ significance = <<1, 100>>
    /\ pc = "idle"
    /\ loaded = 0
    /\ metadata = None
    /\ image_stack = <<>>
    /\ strategy = "none"
    /\ i = 0
    /\ first_change = <<>>
    /\ change_frequency = <<>>
    /\ change_magnitude = <<>>
    /\ error = "none"
    /\ result = <<>>
    /\ calls = 0
    /\ history = <<>>

\* What requests.get gives: an HTTP status, or RequestRaised for an
\* exception (timeout, connection error); NoRequest where none was made.
RequestRaised == -1
NoRequest == 0
Responses == {200, 401, 403, 500, RequestRaised}

\* The record kept of the product being processed: the status of the first
\* request, the token refresh ("none", "ok" or "failed"), the status of the
\* retry, and whether the body was written to its file.
FreshProduct ==
    [first |-> NoRequest, refresh |-> "none", retry |-> NoRequest,
     written |-> FALSE]

InitDownload ==
    /\ dl \in {[pc |-> "token", n |-> n, k |-> 1, access_token |-> 0,
                downloaded_files |-> <<>>, cur |-> FreshProduct,
                log |-> <<>>] : n \in 1..MaxProducts}
    /\ DetectIdle
    /\ conv = ConvIdle
    /\ tk = TkIdle

\* Lines 391-394: the initial token; a failure is re-raised at line 487.
GetToken ==
    /\ dl.pc = "token"
    /\ \/ dl' = [dl EXCEPT !.pc = "request", !.access_token = 1]
       \/ dl' = [dl EXCEPT !.pc = "raised"]
    /\ UNCHANGED <<detectVars, conv, tk>>

\* The loop goes on to the next product (the end of the body, or "continue"
\* at line 475), with the record c of the product left behind.
NextProduct(d, c) ==
    [d EXCEPT !.pc = "request", !.k = d.k + 1, !.cur = FreshProduct,
              !.log = Append(d.log, c)]

\* Faulty variant of IsAuthError: only 401 is taken as an authentication error.
IsAuthErrorOnly401(status) == status = 401
\* response.status_code in [401, 403]
IsAuthError(status) == status \in {401, 403}

\* Lines 400-414, 440, 470-475: the first request for product k.
Request ==
    /\ dl.pc = "request"
    /\ dl.k <= dl.n
    /\ \E r \in Responses :
          LET c == [dl.cur EXCEPT !.first = r]
          IN  dl' = IF r = 200 THEN [dl EXCEPT !.pc = "write", !.cur = c]
                    ELSE IF IsAuthError(r)
                         THEN [dl EXCEPT !.pc = "refresh", !.cur = c]
                         ELSE NextProduct(dl, c)
    /\ UNCHANGED <<detectVars, conv, tk>>

\* Lines 445-449: the token is refreshed; get_access_token may raise, which
\* the handler at line 473 catches.
Refresh ==
    /\ dl.pc = "refresh"
    /\ \/ dl' = [dl EXCEPT !.pc = "retry", !.access_token = dl.access_token + 1,
                           !.cur = [dl.cur EXCEPT !.refresh = "ok"]]
       \/ dl' = NextProduct(dl, [dl.cur EXCEPT !.refresh = "failed"])
    /\ UNCHANGED <<detectVars, conv, tk>>

\* Lines 451-453, 467-468: the one retry with the new token.
Retry ==
    /\ dl.pc = "retry"
    /\ \E r \in Responses :
          LET c == [dl.cur EXCEPT !.retry = r]
          IN  dl' = IF r = 200 THEN [dl EXCEPT !.pc = "write", !.cur = c]
                    ELSE NextProduct(dl, c)
    /\ UNCHANGED <<detectVars, conv, tk>>

\* Lines 416-438 and 454-466: the body is streamed to the file and the path
\* appended; open, iter_content or write may raise, and then the path is not
\* appended (line 473).
Write ==
    /\ dl.pc = "write"
    /\ \/ dl' = NextProduct([dl EXCEPT !.downloaded_files = Append(@, dl.k)],
                            [dl.cur EXCEPT !.written = TRUE])
       \/ dl' = NextProduct(dl, dl.cur)
    /\ UNCHANGED <<detectVars, conv, tk>>

\* Lines 477-478: return downloaded_files.
ReturnFiles ==
    /\ dl.pc = "request"
    /\ dl.k > dl.n
    /\ dl' = [dl EXCEPT !.pc = "returned"]
    /\ UNCHANGED <<detectVars, conv, tk>>

NextDownload == GetToken \/ Request \/ Refresh \/ Retry \/ Write \/ ReturnFiles

SpecDownload == InitDownload /\ [][NextDownload]_vars

\* ---------------------------------------------------------------- tanks
\* sar4cet/oil_monitoring/tank_volume.py, detect_tank_changes from line 156
\* on: the tanks of the two images were estimated.  A tank is its centroid
\* (row, col), its equivalent diameter in pixels and its volume, here
\* pi * r^2 * h with h = diameter (lines 94-98), in units of pi/4.
Centroids == {<<0, 0>>, <<0, 6>>, <<8, 0>>, <<0, 30>>}
Diameters == {10, 20}
Tanks ==
    {[centroid |-> c, diameter |-> d, volume |-> d * d * d] :
        c \in Centroids, d \in Diameters}
\* (centroid1[0] - centroid2[0])**2 + (centroid1[1] - centroid2[1])**2
Dist2(a, b) ==
    (a[1] - b[1]) * (a[1] - b[1]) + (a[2] - b[2]) * (a[2] - b[2])
\* The tanks of one image are separate regions: no two overlap.
Separate(tanks) ==
    \A a, b \in 1..Len(tanks) :
        a # b => 4 * Dist2(tanks[a].centroid, tanks[b].centroid) >=
                    (tanks[a].diameter + tanks[b].diameter)
                        * (tanks[a].diameter + tanks[b].diameter)
TankLists ==
    {l \in UNION {[1..n -> Tanks] : n \in 0..MaxTanks} : Separate(l)}

\* dist < diameter / 2 for the distance of squared value dist2.
WithinRadius(dist2, diameter) == 4 * dist2 < diameter * diameter

RECURSIVE ClosestTank(_, _, _)
\* Lines 162-171: the index of closest_tank after the first k tanks of time
\* 2 (0 for None): the first tank at the least distance among those within
\* tank1's radius.
ClosestTank(tank1, tanks2, k) ==
    IF k = 0 THEN 0
    ELSE LET prev == ClosestTank(tank1, tanks2, k - 1)
             dist == Dist2(tank1.centroid, tanks2[k].centroid)
         IN  IF /\ prev = 0 \/ dist < Dist2(tank1.centroid, tanks2[prev].centroid)
                /\ WithinRadius(dist, tank1.diameter)
             THEN k ELSE prev

RECURSIVE MatchedTanks(_, _, _)
\* Lines 157-184 for the first k tanks of time 1.  "closest" is not a key of
\* the dict: it records which tank of time 2 was selected.  percent_change
\* is kept as the fraction <<100 * volume_change, volume_t1>>.
MatchedTanks(tanks1, tanks2, k) ==
    IF k = 0 THEN <<>>
    ELSE LET tank1 == tanks1[k]
             j == ClosestTank(tank1, tanks2, Len(tanks2))
             before == MatchedTanks(tanks1, tanks2, k - 1)
         IN  IF j = 0 THEN before
             ELSE Append(before,
                    [centroid |-> tank1.centroid,
                     volume_t1 |-> tank1.volume,
                     volume_t2 |-> tanks2[j].volume,
                     volume_change |-> tanks2[j].volume - tank1.volume,
                     percent_change |->
                        <<100 * (tanks2[j].volume - tank1.volume), tank1.volume>>,
                     closest |-> j])

\* Lines 187-201: the tanks of time 2 with no tank of time 1 within their
\* own radius.
NewTanks(tanks1, tanks2) ==
    SelectSeq(tanks2, LAMBDA tank2 :
        \A a \in 1..Len(tanks1) :
            ~WithinRadius(Dist2(tanks1[a].centroid, tank2.centroid),
                          tank2.diameter))

\* Lines 204-218: the tanks of time 1 with no tank of time 2 within their
\* own radius.
RemovedTanks(tanks1, tanks2) ==
    SelectSeq(tanks1, LAMBDA tank1 :
        \A b \in 1..Len(tanks2) :
            ~WithinRadius(Dist2(tank1.centroid, tanks2[b].centroid),
                          tank1.diameter))

RECURSIVE TotalVolumeChange(_, _)
\* sum(tank['volume_change'] for tank in matched_tanks)
TotalVolumeChange(matched, k) ==
    IF k = 0 THEN 0
    ELSE TotalVolumeChange(matched, k - 1) + matched[k].volume_change

InitTanks ==
    /\ tk \in {[pc |-> "match", tanks_t1 |-> l1, tanks_t2 |-> l2,
                matched_tanks |-> <<>>, new_tanks |-> <<>>,
                removed_tanks |-> <<>>, result |-> <<>>] :
                  l1 \in TankLists, l2 \in TankLists}
    /\ DetectIdle
    /\ conv = ConvIdle
    /\ dl = DlIdle

MatchTanks ==
    /\ tk.pc = "match"
    /\ tk' = [tk EXCEPT !.pc = "new",
                        !.matched_tanks = MatchedTanks(tk.tanks_t1, tk.tanks_t2,
                                                       Len(tk.tanks_t1))]
    /\ UNCHANGED <<detectVars, conv, dl>>

FindNewTanks ==
    /\ tk.pc = "new"
    /\ tk' = [tk EXCEPT !.pc = "removed",
                        !.new_tanks = NewTanks(tk.tanks_t1, tk.tanks_t2)]
    /\ UNCHANGED <<detectVars, conv, dl>>

FindRemovedTanks ==
    /\ tk.pc = "removed"
    /\ tk' = [tk EXCEPT !.pc = "return",
                        !.removed_tanks = RemovedTanks(tk.tanks_t1, tk.tanks_t2)]
    /\ UNCHANGED <<detectVars, conv, dl>>

\* Lines 220-228 (transform and crs are passed through from time 1 and left
\* out here).
ReturnChanges ==
    /\ tk.pc = "return"
    /\ tk' = [tk EXCEPT !.pc = "returned",
                        !.result =
                            <<[matched_tanks |-> tk.matched_tanks,
                               new_tanks |-> tk.new_tanks,
                               removed_tanks |-> tk.removed_tanks,
                               total_volume_change |->
                                   TotalVolumeChange(tk.matched_tanks,
                                                     Len(tk.matched_tanks))]>>]
    /\ UNCHANGED <<detectVars, conv, dl>>

NextTanks == MatchTanks \/ FindNewTanks \/ FindRemovedTanks \/ ReturnChanges

SpecTanks == InitTanks /\ [][NextTanks]_vars

\* ---------------------------------------------------------------- claims
\* The steps 1..T-1 at which the entered strategy flags pixel p.
FlaggedSteps(p) ==
    {s \in 1..(Len(image_stack) - 1) :
        StepChanges(strategy, image_stack, significance, s, p)}

Returned == pc = "returned" /\ Len(image_stack) >= 2
ValidSignificance(sig) == 0 < sig[1] /\ sig[1] < sig[2]
\* Two grids of the list differ in shape.
Mismatched(imgs) == \E a, b \in 1..Len(imgs) : Len(imgs[a]) # Len(imgs[b])
ValidStack(imgs) == Len(imgs) >= 2 /\ ~Mismatched(imgs)

\* C1: when detect_changes has returned for a stack of T >= 2 grids, every
\* pixel has first_change in 0..T-1, and first_change = 0 exactly when the
\* pixel was flagged at no step 1..T-1.
C1_FirstChange ==
    Returned =>
        \A p \in DOMAIN image_stack[1] :
            /\ result[1].first_change[p] \in 0..(Len(image_stack) - 1)
            /\ result[1].first_change[p] = 0 <=> FlaggedSteps(p) = {}

\* C2: when detect_changes has returned for a stack of T >= 2 grids, every
\* pixel has 0 <= change_frequency <= T-1, and change_frequency is the number
\* of steps 1..T-1 at which the pixel was flagged.
C2_Frequency ==
    Returned =>
        \A p \in DOMAIN image_stack[1] :
            /\ result[1].change_frequency[p] \in 0..(Len(image_stack) - 1)
            /\ result[1].change_frequency[p] = Cardinality(FlaggedSteps(p))

\* C3: when detect_changes has returned, change_magnitude at a pixel is the
\* maximum of the magnitudes of the steps at which the pixel was flagged (0 if
\* there is none), and it is 0 exactly when change_frequency is 0.
C3_Magnitude ==
    Returned =>
        \A p \in DOMAIN image_stack[1] :
            LET cm == result[1].change_magnitude[p]
                m(s) == StepMagnitude(strategy, image_stack, s, p)
            IN  /\ FlaggedSteps(p) = {} => IsZero(cm)
                /\ FlaggedSteps(p) # {} =>
                      /\ \E s \in FlaggedSteps(p) : MagEq(cm, m(s))
                      /\ \A s \in FlaggedSteps(p) : ~MagLess(cm, m(s))
                /\ IsZero(cm) <=> result[1].change_frequency[p] = 0

\* detect_changes has returned for the stack of Scenarios A and B under method m.
ScenarioRun(m) == pc = "returned" /\ images = ScenarioStack /\ method = m

\* C4 as stated: the ratio test on the scenario stack gives first_change 3 and
\* change_frequency 2 at the changed pixel, and 0 and 0 at every other pixel.
C4_ScenarioA_Stated ==
    ScenarioRun("ratio") =>
        /\ result[1].first_change = <<3, 0>>
        /\ result[1].change_frequency = <<2, 0>>

\* C4 amended: the ratio test on the scenario stack gives first_change 3 and
\* change_frequency 1 at the changed pixel (flagged at step 3 only: step 4
\* compares 2.5 with 2.5), and 0 and 0 at every other pixel.
C4_ScenarioA ==
    ScenarioRun("ratio") =>
        /\ result[1].first_change = <<3, 0>>
        /\ result[1].change_frequency = <<1, 0>>
        /\ FlaggedSteps(1) = {3}

C4_Witness == ScenarioRun("ratio") /\ result[1].first_change[1] = 3

\* C5 as stated: the difference test on the scenario stack gives first_change
\* 3 and change_frequency 2 at the changed pixel, and 0 and 0 elsewhere.
C5_ScenarioB_Stated ==
    ScenarioRun("difference") =>
        /\ result[1].first_change = <<3, 0>>
        /\ result[1].change_frequency = <<2, 0>>

\* C5 amended: the difference test on the scenario stack gives first_change 3
\* and change_frequency 1 at the changed pixel (flagged at step 3 only), and 0
\* and 0 at every other pixel.
C5_ScenarioB ==
    ScenarioRun("difference") =>
        /\ result[1].first_change = <<3, 0>>
        /\ result[1].change_frequency = <<1, 0>>
        /\ FlaggedSteps(1) = {3}

C5_Witness == ScenarioRun("difference") /\ result[1].first_change[1] = 3

\* Pixel p is v0 > 0 in images 0..j-1 and another value v1 > 0 from image j on.
JumpAt(p, j) ==
    \E v0, v1 \in Values \ {0} :
        /\ v0 # v1
        /\ \A t \in 1..Len(image_stack) :
              image_stack[t][p] = IF t <= j THEN v0 ELSE v1
ConstantPixel(p) ==
    \A t \in 1..Len(image_stack) : image_stack[t][p] = image_stack[1][p]

\* C6: when the omnibus test with significance 0.01 has returned for a stack
\* in which one pixel jumps at step j and every other pixel is constant, the
\* constant pixels have change_magnitude 0 and change_frequency 0, and the
\* jumped pixel has first_change j and a change_magnitude above the critical
\* value.
C6_ScenarioC ==
    (Returned /\ strategy = "omnibus" /\ significance = <<1, 100>>) =>
        \A p \in DOMAIN image_stack[1] : \A j \in 1..(Len(image_stack) - 1) :
            (JumpAt(p, j) /\ \A q \in DOMAIN image_stack[1] \ {p} : ConstantPixel(q))
            => /\ \A q \in DOMAIN image_stack[1] \ {p} :
                     /\ IsZero(result[1].change_magnitude[q])
                     /\ result[1].change_frequency[q] = 0
               /\ result[1].first_change[p] = j
               /\ ExceedsCritical(result[1].change_magnitude[p],
                                  chi2_ppf(significance))

\* C7: a call with fewer than 2 images enters no strategy and returns no
\* ChangeMap: it ends in an error.
C7_TooFewImages ==
    Len(images) < 2 =>
        /\ strategy = "none"
        /\ result = <<>>
        /\ pc \in {"call", "stacked", "raised"}

\* C8: a call with an unknown method (on a stack that is itself valid) enters
\* no strategy and returns no ChangeMap; it ends in the unknown-method error,
\* raised before any image is loaded or stacked.
C8_UnknownMethod ==
    (~KnownMethod(method) /\ ValidStack(images)) =>
        /\ strategy = "none"
        /\ result = <<>>
        /\ pc \in {"call", "stacked", "raised"}
        /\ pc = "raised" =>
              /\ error = "ValueError: Unknown method"
              /\ loaded = 0
              /\ image_stack = <<>>

\* C9: a call with grids of different shapes enters no strategy and returns
\* no ChangeMap, whatever the method: it ends in the error np.stack raises.
C9_ShapeMismatch ==
    Mismatched(images) =>
        /\ strategy = "none"
        /\ result = <<>>
        /\ pc \in {"call", "raised"}
        /\ pc = "raised" =>
              error = "ValueError: all input arrays must have the same shape"

C9_Witness ==
    /\ pc = "raised"
    /\ Mismatched(images)
    /\ KnownMethod(method)
    /\ Len(images) >= 3

\* C10: a call with a significance outside (0, 1) (on a valid stack, with a
\* known method) enters no strategy and returns no ChangeMap: it ends in an
\* error, whichever method is selected.
C10_Significance ==
    (~ValidSignificance(significance) /\ ValidStack(images) /\ KnownMethod(method)) =>
        /\ strategy = "none"
        /\ result = <<>>
        /\ pc \in {"call", "stacked", "raised"}

\* Pixel p is 0 in every image of the stack.
ZeroPixel(p) == \A t \in 1..Len(image_stack) : image_stack[t][p] = 0

\* C11: when detect_changes has returned, a pixel that is 0 in every image has
\* a finite change_magnitude (neither infinite nor NaN), for each strategy
\* (first_change and change_frequency are uint8 and always finite).
C11_ZeroPixelFinite ==
    Returned =>
        \A p \in DOMAIN image_stack[1] :
            ZeroPixel(p) => IsFinite(result[1].change_magnitude[p])

\* The three maps of pixel p after iterations 1..k of strategy m on a stack,
\* as a function of the strategy's arguments.
RECURSIVE PixelRun(_, _, _, _, _)
PixelRun(m, stack, sig, p, k) ==
    IF k = 0
    THEN [first_change |-> 0, change_frequency |-> 0, change_magnitude |-> Zero]
    ELSE LET prev == PixelRun(m, stack, sig, p, k - 1)
             ch == StepChanges(m, stack, sig, k, p)
         IN  [first_change |-> UpdateFirstChange(prev.first_change, ch, k),
              change_frequency |-> UpdateFrequency(prev.change_frequency, ch),
              change_magnitude |->
                  UpdateMagnitude(prev.change_magnitude, ch,
                                  StepMagnitude(m, stack, k, p))]

\* The three grids strategy m returns for a stack.
StrategyMaps(m, stack, sig) ==
    LET run(p) == PixelRun(m, stack, sig, p, Len(stack) - 1)
    IN  [first_change |-> [p \in DOMAIN stack[1] |-> run(p).first_change],
         change_frequency |-> [p \in DOMAIN stack[1] |-> run(p).change_frequency],
         change_magnitude |-> [p \in DOMAIN stack[1] |-> run(p).change_magnitude]]

\* The three values of the returned dict at pixel p.
ResultAt(p) ==
    [first_change |-> result[1].first_change[p],
     change_frequency |-> result[1].change_frequency[p],
     change_magnitude |-> result[1].change_magnitude[p]]

\* The three grids of the returned dict.
ResultMaps ==
    [first_change |-> result[1].first_change,
     change_frequency |-> result[1].change_frequency,
     change_magnitude |-> result[1].change_magnitude]

\* C13: when detect_changes has returned under method "ratio" or "difference"
\* with a valid significance, its three grids are the grids of the same
\* strategy on the same stack under every other valid significance.
C13_SignificanceIgnored ==
    (Returned /\ method \in {"ratio", "difference"}
              /\ ValidSignificance(significance)) =>
        \A sig \in Significances : \A p \in DOMAIN image_stack[1] :
            ValidSignificance(sig) =>
                ResultAt(p) = PixelRun(method, image_stack, sig, p,
                                       Len(image_stack) - 1)

C13_Witness ==
    /\ Returned
    /\ method = "ratio"
    /\ significance = <<1, 2>>
    /\ \E p \in DOMAIN image_stack[1] : result[1].change_frequency[p] > 0
    /\ ResultMaps = StrategyMaps(method, image_stack, <<1, 100>>)

\* C14: in the returned dict, "metadata" is None when grids were given and
\* the loader's metadata of the first file when paths were given, and the
\* three grids are the strategy's function of the stack and the significance
\* alone, whichever way the images came.
C14_Metadata ==
    pc = "returned" =>
        /\ result[1].metadata = IF from_paths THEN <<"meta", 1>> ELSE None
        /\ \A p \in DOMAIN image_stack[1] :
              ResultAt(p) = PixelRun(method, image_stack, significance, p,
                                     Len(image_stack) - 1)

C14_Witness ==
    /\ pc = "returned"
    /\ from_paths
    /\ Len(images) >= 2
    /\ loaded = Len(images)
    /\ result[1].metadata = <<"meta", 1>>

\* C15: no step of detect_changes or of a strategy changes the caller's list
\* of images, and once the stack exists no step changes it, whether the call
\* returns or raises.
C15_InputsUnchanged ==
    [][/\ images' = images
       /\ image_stack # <<>> => image_stack' = image_stack]_vars

C15_Witness ==
    /\ pc = "returned"
    /\ Len(images) >= 2
    /\ image_stack = images
    /\ \E p \in DOMAIN image_stack[1] : result[1].change_frequency[p] > 0

\* The one-pixel tile of a stack at pixel p.
Tile(stack, p) == [t \in 1..Len(stack) |-> <<stack[t][p]>>]

\* C16: when detect_changes has returned, the three values at each pixel are
\* the values the same strategy gives on the tile holding that pixel alone:
\* processing the tiles separately and reassembling gives the same grids.
C16_PixelIndependent ==
    Returned =>
        \A p \in DOMAIN image_stack[1] :
            ResultAt(p) = PixelRun(method, Tile(image_stack, p), significance,
                                   1, Len(image_stack) - 1)

C16_Witness ==
    /\ Returned
    /\ Len(image_stack[1]) = 2
    /\ result[1].change_frequency[1] > 0
    /\ result[1].change_frequency[2] = 0
    /\ \E t \in 1..Len(image_stack) : image_stack[t][1] # image_stack[t][2]
    /\ StrategyMaps(method, Tile(image_stack, 1), significance).change_frequency[1] > 0

\* Significance levels strictly between 0 and 1, as <<p, q>> for p/q.
SignificanceLevels == {<<1, 100>>, <<1, 10>>, <<1, 4>>, <<1, 2>>}
SigLeq(a, b) == a[1] * b[2] <= b[1] * a[2]
\* The steps at which the omnibus test flags pixel p under significance a.
OmnibusFlagged(a, p) ==
    {s \in 1..(Len(image_stack) - 1) :
        StepChanges("omnibus", image_stack, a, s, p)}

ChiSquareRule(stack, a, s, p) ==
    LET A == SumTo(stack, p, s + 1)
        B == SumTo(stack, p, s)
    IN  /\ B > 0
        /\ MulLess(Pow(A * s, 5), a[2], a[1] * Pow(B * (s + 1), 5))

\* C19: every iteration of omnibus_test under a valid significance flags a
\* pixel (counts it in change_frequency) exactly when
\* -2 * L * ln(mean_all / mean_prev) > c with L = 5 and c the value a
\* chi-square variable with 2 degrees of freedom exceeds with probability
\* significance.
C19_OmnibusRule ==
    [][(pc = "loop" /\ strategy = "omnibus" /\ ValidSignificance(significance)
                    /\ i' = i + 1) =>
          \A p \in DOMAIN image_stack[1] :
              /\ ChiSquareRule(image_stack, significance, i, p) =>
                    change_frequency'[p] = change_frequency[p] + 1
              /\ ~ChiSquareRule(image_stack, significance, i, p) =>
                    change_frequency'[p] = change_frequency[p]]_vars

C19_Witness ==
    /\ pc = "loop"
    /\ strategy = "omnibus"
    /\ significance = <<1, 2>>
    /\ i = 3
    /\ \E p \in DOMAIN image_stack[1] :
          /\ ChiSquareRule(image_stack, significance, 1, p)
          /\ ~ChiSquareRule(image_stack, significance, 2, p)
          /\ image_stack[3][p] > 0
          /\ change_frequency[p] = 1

\* The first part of C20: a non-zero first_change is changed by no later step.
C20_NeverOverwritten ==
    [][pc = "loop" =>
          \A p \in DOMAIN first_change :
              first_change[p] # 0 => first_change'[p] = first_change[p]]_vars

\* C20: a non-zero first_change is never changed by a later step, so when
\* detect_changes has returned, first_change at every pixel flagged at some
\* step is the smallest step index at which the pixel was flagged.
C20_EarliestWins ==
    Returned =>
        \A p \in DOMAIN image_stack[1] :
            FlaggedSteps(p) # {} =>
                /\ result[1].first_change[p] \in FlaggedSteps(p)
                /\ \A s \in FlaggedSteps(p) : result[1].first_change[p] <= s

\* C12: any two calls of detect_changes that returned for identical images,
\* method and significance returned identical grids, whatever calls were
\* made before or between them.
C12_Deterministic ==
    \A a, b \in 1..Len(history) :
        (/\ history[a].images = history[b].images
         /\ history[a].method = history[b].method
         /\ history[a].significance = history[b].significance) =>
            /\ history[a].first_change = history[b].first_change
            /\ history[a].change_frequency = history[b].change_frequency
            /\ history[a].change_magnitude = history[b].change_magnitude

C12_Witness ==
    /\ Len(history) = 3
    /\ history[1].images = history[3].images
    /\ history[1].method = history[3].method
    /\ history[1].significance = history[3].significance
    /\ history[2].images # history[1].images
    /\ history[1].change_frequency[1] > 0
    /\ history[2].change_frequency[1] > 0
    /\ history[3] = history[1]

C21_StepFrame ==
    [][(pc = "loop" /\ i' = i + 1) =>
          \A p \in DOMAIN image_stack[1] :
              IF StepChanges(strategy, image_stack, significance, i, p)
              THEN change_frequency'[p] = change_frequency[p] + 1
              ELSE /\ first_change'[p] = first_change[p]
                   /\ change_frequency'[p] = change_frequency[p]
                   /\ change_magnitude'[p] = change_magnitude[p]]_vars

\* C22: no iteration lowers change_magnitude[p]; at an iteration where p is
\* flagged the new value is the maximum of the previous value and the
\* step's magnitude, also after first_change[p] was set.
C22_MagnitudeMonotone ==
    [][(pc = "loop" /\ i' = i + 1) =>
          \A p \in DOMAIN image_stack[1] :
              LET mag == StepMagnitude(strategy, image_stack, i, p)
              IN  /\ ~MagLess(change_magnitude'[p], change_magnitude[p])
                  /\ StepChanges(strategy, image_stack, significance, i, p) =>
                        /\ ~MagLess(change_magnitude'[p], mag)
                        /\ \/ change_magnitude'[p] = change_magnitude[p]
                           \/ change_magnitude'[p] = mag]_vars

\* The magnitude of a pixel has grown at step 2, after first_change was set
\* at step 1.
C22_Witness ==
    /\ pc = "loop"
    /\ i = 3
    /\ \E p \in DOMAIN image_stack[1] :
          /\ first_change[p] = 1
          /\ StepChanges(strategy, image_stack, significance, 2, p)
          /\ IsFinite(change_magnitude[p])
          /\ MagLess(StepMagnitude(strategy, image_stack, 1, p),
                     change_magnitude[p])
          /\ change_magnitude[p] = StepMagnitude(strategy, image_stack, 2, p)

\* r > 1.5 or r < 1/1.5 for r = b / (a + epsilon), a the pixel in grid i-1
\* and b in grid i, epsilon positive and below every difference of the
\* grid values: 2b > 3a, or 3b < 2a + 2*epsilon, that is 3b <= 2a.
RatioRule(a, b) == 2 * b > 3 * a \/ 3 * b <= 2 * a
\* |ln(r)| for that r.
RatioRuleMagnitude(a, b) == AbsLog(Frac(<<b, 0>>, <<a, 2>>))

\* C23: every iteration i of ratio_test flags pixel p (counts it in
\* change_frequency) exactly when r > 1.5 or r < 1/1.5 for
\* r = grid[i][p] / (grid[i-1][p] + epsilon), and at a flagged iteration the
\* magnitude |ln(r)| is recorded (as the maximum with the value so far).
C23_RatioRule ==
    [][(pc = "loop" /\ strategy = "ratio" /\ i' = i + 1) =>
          \A p \in DOMAIN image_stack[1] :
              LET a == image_stack[i][p]
                  b == image_stack[i + 1][p]
              IN  /\ change_frequency'[p] # change_frequency[p] <=> RatioRule(a, b)
                  /\ RatioRule(a, b) =>
                        /\ ~MagLess(change_magnitude'[p], RatioRuleMagnitude(a, b))
                        /\ \/ change_magnitude'[p] = change_magnitude[p]
                           \/ change_magnitude'[p] = RatioRuleMagnitude(a, b)]_vars

C23_Witness ==
    /\ pc = "loop"
    /\ strategy = "ratio"
    /\ i = 3
    /\ \E p \in DOMAIN image_stack[1] :
          /\ image_stack[1][p] = 5
          /\ image_stack[2][p] = 2
          /\ image_stack[3][p] = 2
          /\ first_change[p] = 1
          /\ change_frequency[p] = 1
          /\ change_magnitude[p] = RatioRuleMagnitude(5, 2)

\* The stack with every grid other than grids s-1 and s (1-based s, s+1)
\* replaced by the constant grid of value v.
OthersReplaced(stack, s, v) ==
    [t \in 1..Len(stack) |->
        IF t \in {s, s + 1} THEN stack[t] ELSE [q \in DOMAIN stack[t] |-> v]]

\* C24: at every iteration i of ratio_test and difference_test, whether
\* pixel p is flagged, and the magnitude recorded, are those the strategy
\* gives at step i on every stack that agrees on grids i-1 and i, whatever
\* its other grids contain.
C24_ConsecutiveOnly ==
    [][(pc = "loop" /\ strategy \in {"ratio", "difference"} /\ i' = i + 1) =>
          \A v \in Values : \A p \in DOMAIN image_stack[1] :
              LET other == OthersReplaced(image_stack, i, v)
                  flag == StepChanges(strategy, other, significance, i, p)
                  mag == StepMagnitude(strategy, other, i, p)
              IN  /\ change_frequency'[p] # change_frequency[p] <=> flag
                  /\ flag =>
                        /\ ~MagLess(change_magnitude'[p], mag)
                        /\ \/ change_magnitude'[p] = change_magnitude[p]
                           \/ change_magnitude'[p] = mag]_vars

\* Step 2 has flagged a pixel whose grid 0 equals its grid 2.
C24_Witness ==
    /\ pc = "loop"
    /\ strategy \in {"ratio", "difference"}
    /\ i = 3
    /\ \E p \in DOMAIN image_stack[1] :
          /\ image_stack[1][p] = image_stack[3][p]
          /\ image_stack[2][p] = 2
          /\ StepChanges(strategy, image_stack, significance, 2, p)
          /\ change_frequency[p] = 2

\* C25: when detect_changes has returned for method m, the dict holds the
\* first_change, change_frequency and change_magnitude grids that strategy m
\* gives on the stack of the images in their given order (omnibus_test with
\* the call's significance), a "metadata" entry and nothing else.
C25_DispatchEquivalence ==
    pc = "returned" =>
        /\ DOMAIN result[1] = {"first_change", "change_frequency",
                               "change_magnitude", "metadata"}
        /\ DOMAIN result[1].first_change = DOMAIN images[1]
        /\ DOMAIN result[1].change_frequency = DOMAIN images[1]
        /\ DOMAIN result[1].change_magnitude = DOMAIN images[1]
        /\ \A p \in DOMAIN images[1] :
              ResultAt(p) = PixelRun(method, images, significance, p,
                                     Len(images) - 1)

\* The difference test has returned for a stack on which the ratio test
\* gives other grids (a pixel that is 0 throughout).
C25_Witness ==
    /\ Returned
    /\ method = "difference"
    /\ \E p \in DOMAIN image_stack[1] :
          /\ ZeroPixel(p)
          /\ result[1].first_change[p] = 0
          /\ StrategyMaps("ratio", images, significance).first_change[p] = 1
    /\ \E p \in DOMAIN image_stack[1] : result[1].first_change[p] > 0

\* Significance levels up to 1/32: 0, 0.01 (the default) and 1/32.
LowSignificances == {<<0, 1>>, <<1, 100>>, <<1, 32>>}

\* C26: on a stack of non-negative intensities omnibus_test flags no pixel
\* at any step under any significance up to 1/32, and when detect_changes
\* has returned under method "omnibus" with such a significance, its three
\* grids are zero everywhere.
C26_OmnibusNeverFlags ==
    (pc = "returned" /\ method = "omnibus") =>
        \A p \in DOMAIN image_stack[1] :
            /\ \A a \in LowSignificances : OmnibusFlagged(a, p) = {}
            /\ SigLeq(significance, <<1, 32>>) =>
                  /\ result[1].first_change[p] = 0
                  /\ result[1].change_frequency[p] = 0
                  /\ IsZero(result[1].change_magnitude[p])

\* The ratio of the means is exactly 1/2 at step 1 (2.5 then 0): no flag at
\* 1/32, a flag at 1/31.
C26_Witness ==
    /\ Returned
    /\ method = "omnibus"
    /\ significance = <<1, 100>>
    /\ \E p \in DOMAIN image_stack[1] :
          /\ image_stack[1][p] = 5
          /\ image_stack[2][p] = 0
          /\ result[1].change_frequency[p] = 0
          /\ 1 \notin OmnibusFlagged(<<1, 32>>, p)
          /\ 1 \in OmnibusFlagged(<<1, 31>>, p)

\* C27: when detect_changes has returned for a stack of T grids, a pixel with
\* first_change # 0 has 1 <= change_frequency <= T - first_change, and a
\* pixel with first_change = 0 has change_frequency = 0.
C27_FrequencyBounds ==
    Returned =>
        \A p \in DOMAIN image_stack[1] :
            IF result[1].first_change[p] # 0
            THEN /\ result[1].change_frequency[p] >= 1
                 /\ result[1].change_frequency[p] <=
                        Len(image_stack) - result[1].first_change[p]
            ELSE result[1].change_frequency[p] = 0

\* C28: when detect_changes has returned, change_frequency at every pixel is
\* in 0..255 and equals the number of flagged steps modulo 256: the exact
\* count for a pixel flagged at most 255 times, and 0 for a pixel flagged
\* exactly 256 times.
C28_FrequencyModulo ==
    Returned =>
        \A p \in DOMAIN image_stack[1] :
            LET n == Cardinality(FlaggedSteps(p))
                cf == result[1].change_frequency[p]
            IN  /\ cf \in 0..255
                /\ cf = n % 256
                /\ n <= 255 => cf = n
                /\ n = 256 => cf = 0

C28_Witness ==
    /\ Returned
    /\ images = LongAlternating
    /\ Cardinality(FlaggedSteps(1)) = 256
    /\ result[1].change_frequency = <<0>>

\* The products, in order, whose record satisfies Test.
ProductsWhere(Test(_)) ==
    SelectSeq([k \in 1..dl.n |-> k], LAMBDA k : Test(dl.log[k]))
\* Every product was attempted, in order; a 401 or 403 answer to the first
\* request, and nothing else, was followed by one token refresh, and a
\* refresh that gave a token by one retry.
AttemptsIsolated ==
    /\ Len(dl.log) = dl.n
    /\ \A k \in 1..dl.n :
          /\ dl.log[k].first # NoRequest
          /\ dl.log[k].refresh # "none" <=> dl.log[k].first \in {401, 403}
          /\ dl.log[k].retry # NoRequest <=> dl.log[k].refresh = "ok"
    /\ dl.access_token =
          1 + Cardinality({k \in 1..dl.n : dl.log[k].refresh = "ok"})
Got200(c) == c.first = 200 \/ c.retry = 200
Got200AndWritten(c) == Got200(c) /\ c.written

\* C29 as stated: when download_sentinel1 has returned, every product was
\* attempted with at most one refresh and retry, and the list holds the
\* paths of exactly the products whose first request or retry returned 200.
C29_Download_Stated ==
    dl.pc = "returned" =>
        /\ AttemptsIsolated
        /\ dl.downloaded_files = ProductsWhere(Got200)

\* C29 amended: when download_sentinel1 has returned, every product was
\* attempted with at most one refresh and retry, and the list holds, in
\* product order, the paths of exactly the products whose first request or
\* retry returned 200 and whose body was then written without an exception.
C29_Download ==
    dl.pc = "returned" =>
        /\ AttemptsIsolated
        /\ dl.downloaded_files = ProductsWhere(Got200AndWritten)

\* Product 1 failed after a refresh, product 2 was downloaded on its retry
\* and product 3 on its first request.
C29_Witness ==
    /\ dl.pc = "returned"
    /\ dl.n = 3
    /\ dl.log[1].first = 403 /\ dl.log[1].refresh = "failed"
    /\ dl.log[2].first = 401 /\ dl.log[2].retry = 200
    /\ dl.log[3].first = 200
    /\ dl.downloaded_files = <<2, 3>>

\* The elements of a sequence.
Range(seq) == {seq[k] : k \in 1..Len(seq)}

\* C30: when detect_tank_changes has returned, no tank of time 2 that was
\* selected as the closest match of a tank of time 1 is in new_tanks, and
\* every tank of time 1 is in exactly one of matched_tanks (by its centroid)
\* and removed_tanks.
C30_TankClassification ==
    tk.pc = "returned" =>
        LET r == tk.result[1]
        IN  /\ \A m \in 1..Len(r.matched_tanks) :
                  tk.tanks_t2[r.matched_tanks[m].closest] \notin Range(r.new_tanks)
            /\ \A a \in 1..Len(tk.tanks_t1) :
                  (\E m \in 1..Len(r.matched_tanks) :
                      r.matched_tanks[m].centroid = tk.tanks_t1[a].centroid)
                  <=> tk.tanks_t1[a] \notin Range(r.removed_tanks)

\* The second part of C30 alone: every tank of time 1 is in exactly one of
\* matched_tanks and removed_tanks.
C30_MatchedOrRemoved ==
    tk.pc = "returned" =>
        \A a \in 1..Len(tk.tanks_t1) :
            (\E m \in 1..Len(tk.result[1].matched_tanks) :
                tk.result[1].matched_tanks[m].centroid = tk.tanks_t1[a].centroid)
            <=> tk.tanks_t1[a] \notin Range(tk.result[1].removed_tanks)

====
